---- MODULE Spec2Model ----
(***************************************************************************)
(* Model of the password / passphrase generation engine of                 *)
(* Advanced-Password-Generator: PasswordGenerator.generate_random_password *)
(* and PasswordGenerator.generate_passphrase (generator.py) with the       *)
(* alphabets of config.py, the checkers and the breach lookup of utils.py  *)
(* and their caller (main.py, gui.py).  Strings are sequences of           *)
(* one-character strings.                                                  *)
(***************************************************************************)
EXTENDS Integers, Sequences, FiniteSets, TLC

(***************************************************************************)
(* Bounds of the model.                                                    *)
(***************************************************************************)
\* largest length, per-class minimum and word_count a call is given
MaxLen == 1

(***************************************************************************)
(* config.py                                                               *)
(***************************************************************************)
CHARS_LOWERCASE ==
  << "a", "b", "c", "d", "e", "f", "g", "h", "i", "j", "k", "l", "m",
     "n", "o", "p", "q", "r", "s", "t", "u", "v", "w", "x", "y", "z" >>

CHARS_UPPERCASE ==
  << "A", "B", "C", "D", "E", "F", "G", "H", "I", "J", "K", "L", "M",
     "N", "O", "P", "Q", "R", "S", "T", "U", "V", "W", "X", "Y", "Z" >>

CHARS_DIGITS == << "0", "1", "2", "3", "4", "5", "6", "7", "8", "9" >>

\* string.punctuation; its grave accent is written "grave" (the lexer does
\* not take that character inside a string)
CHARS_SYMBOLS ==
  << "!", "\"", "#", "$", "%", "&", "'", "(", ")", "*", "+", ",", "-",
     ".", "/", ":", ";", "<", "=", ">", "?", "@", "[", "\\", "]", "^",
     "_", "grave", "{", "|", "}", "~" >>

\* an ambiguous set that holds every digit
AMBIGUOUS_CHARS_EveryDigit ==
  << "l", "I", "O", "0", "1", "2", "3", "4", "5", "6", "7", "8", "9" >>

AMBIGUOUS_CHARS == << "l", "I", "O", "0", "1" >>

COMMON_PATTERNS ==
  << << "p", "a", "s", "s", "w", "o", "r", "d" >>,
     << "1", "2", "3", "4", "5", "6" >>,
     << "q", "w", "e", "r", "t", "y" >>,
     << "a", "s", "d", "f", "g", "h" >>,
     << "z", "x", "c", "v", "b", "n" >>,
     << "q", "a", "z", "w", "s", "x" >>,
     << "p", "a", "s", "s", "w", "o", "r", "d", "1", "2", "3" >>,
     << "a", "d", "m", "i", "n" >>,
     << "a", "b", "c", "d", "e", "f" >>,
     << "1", "1", "1", "1", "1", "1" >>,
     << "2", "2", "2", "2", "2", "2" >>,
     << "3", "3", "3", "3", "3", "3" >>,
     << "j", "o", "h", "n" >>,
     << "m", "a", "r", "y" >> >>

\* max_attempts of both generation methods
max_attempts == 100

(***************************************************************************)
(* Helpers on strings.                                                     *)
(***************************************************************************)
Range(s) == { s[i] : i \in 1..Len(s) }

\* number of positions of s holding a character of the set S
CountIn(s, S) == Cardinality({ i \in 1..Len(s) : s[i] \in S })

\* "".join(c for c in s if c not in excl)
Without(s, excl) == SelectSeq(s, LAMBDA c : c \notin Range(excl))

\* range(n) of Python: n iterations, none when n <= 0
RangeLen(n) == IF n > 0 THEN n ELSE 0

\* position of a character in a string, 0 when absent
IndexOf(c, s) ==
  IF c \in Range(s) THEN CHOOSE i \in 1..Len(s) : s[i] = c ELSE 0

\* str.upper / str.lower on one character
UpperChar(c) ==
  IF c \in Range(CHARS_LOWERCASE)
    THEN CHARS_UPPERCASE[IndexOf(c, CHARS_LOWERCASE)] ELSE c

LowerChar(c) ==
  IF c \in Range(CHARS_UPPERCASE)
    THEN CHARS_LOWERCASE[IndexOf(c, CHARS_UPPERCASE)] ELSE c

\* str.lower
Lower(s) == [ i \in 1..Len(s) |-> LowerChar(s[i]) ]

\* str.upper
Upper(s) == [ i \in 1..Len(s) |-> UpperChar(s[i]) ]

\* `p in s` of two strings
IsSubstring(p, s) ==
  \E i \in 0..(Len(s) - Len(p)) : SubSeq(s, i + 1, i + Len(p)) = p

(***************************************************************************)
(* utils.py: the checkers                                                  *)
(***************************************************************************)
\* the loop over COMMON_PATTERNS, from pattern number k on
RECURSIVE PatternScan(_, _)
PatternScan(password_lower, k) ==
  IF k > Len(COMMON_PATTERNS) THEN FALSE
  ELSE IF IsSubstring(COMMON_PATTERNS[k], password_lower) THEN TRUE
  ELSE PatternScan(password_lower, k + 1)

\* the patterns are looked for in the password as given
check_for_common_patterns_NoLower(password) == PatternScan(password, 1)

check_for_common_patterns(password) == PatternScan(Lower(password), 1)

\* the default of max_consecutive
DefaultMaxConsecutive == 2

\* the loop `for i in range(len(password) - max_consecutive)`, from i on
\* (i counts from 0 as in the code)
RECURSIVE RepetitionScan(_, _, _)
RepetitionScan(password, max_consecutive, i) ==
  IF i >= Len(password) - max_consecutive THEN FALSE
  ELSE IF \A j \in i..(i + max_consecutive) : password[j + 1] = password[i + 1]
    THEN TRUE
  ELSE RepetitionScan(password, max_consecutive, i + 1)

\* the window compared is max_consecutive characters wide
check_for_consecutive_repetitions_ShortWindow(password, max_consecutive) ==
  IF max_consecutive < 1 THEN FALSE
  ELSE RepetitionScan(password, max_consecutive - 1, 0)

\* max_consecutive is not looked at before the loop
check_for_consecutive_repetitions_NoGuard(password, max_consecutive) ==
  RepetitionScan(password, max_consecutive, 0)

check_for_consecutive_repetitions(password, max_consecutive) ==
  IF max_consecutive < 1 THEN FALSE
  ELSE RepetitionScan(password, max_consecutive, 0)

(***************************************************************************)
(* utils.py: the strength estimates.  A float is kept in thousandths: an   *)
(* entropy e stands for e / 1000 bits, and a positive quantity (guesses,   *)
(* seconds, ..., years) is kept as 1000 times its base-2 logarithm, so     *)
(* that a division is a difference and `x >= 1` reads `x >= 0`.            *)
(***************************************************************************)
\* the printable characters of ASCII in code point order, from the space on
ASCII ==
  << " ", "!", "\"", "#", "$", "%", "&", "'", "(", ")", "*", "+", ",", "-",
     ".", "/", "0", "1", "2", "3", "4", "5", "6", "7", "8", "9", ":", ";",
     "<", "=", ">", "?", "@", "A", "B", "C", "D", "E", "F", "G", "H", "I",
     "J", "K", "L", "M", "N", "O", "P", "Q", "R", "S", "T", "U", "V", "W",
     "X", "Y", "Z", "[", "\\", "]", "^", "_", "grave", "a", "b", "c", "d",
     "e", "f", "g", "h", "i", "j", "k", "l", "m", "n", "o", "p", "q", "r",
     "s", "t", "u", "v", "w", "x", "y", "z", "{", "|", "}", "~" >>

\* ord(char); a character outside ASCII is the e with an acute accent
Ord(char) ==
  IF char \in Range(ASCII) THEN 31 + IndexOf(char, ASCII) ELSE 233

\* the if / elif chain on one character
CharClass(char) ==
  IF Ord("a") <= Ord(char) /\ Ord(char) <= Ord("z") THEN "lowercase"
  ELSE IF Ord("A") <= Ord(char) /\ Ord(char) <= Ord("Z") THEN "uppercase"
  ELSE IF Ord("0") <= Ord(char) /\ Ord(char) <= Ord("9") THEN "digit"
  ELSE IF char \in Range(CHARS_SYMBOLS) THEN "symbol"
  ELSE "other"

\* the class "other" adds nothing
EstimatedCharsetSize_NoOther(charset) ==
    (IF "lowercase" \in charset THEN 26 ELSE 0)
  + (IF "uppercase" \in charset THEN 26 ELSE 0)
  + (IF "digit" \in charset THEN 10 ELSE 0)
  + (IF "symbol" \in charset THEN 32 ELSE 0)

EstimatedCharsetSize(charset) ==
    (IF "lowercase" \in charset THEN 26 ELSE 0)
  + (IF "uppercase" \in charset THEN 26 ELSE 0)
  + (IF "digit" \in charset THEN 10 ELSE 0)
  + (IF "symbol" \in charset THEN 32 ELSE 0)
  + (IF "other" \in charset THEN 50 ELSE 0)

\* math.log2 on the sizes a character set can have, in thousandths of a bit
\* and rounded down
log2 ==
  (10 :> 3321) @@ (26 :> 4700) @@ (32 :> 5000) @@ (36 :> 5169) @@
  (42 :> 5392) @@ (50 :> 5643) @@ (52 :> 5700) @@ (58 :> 5857) @@
  (60 :> 5906) @@ (62 :> 5954) @@ (68 :> 6087) @@ (76 :> 6247) @@
  (82 :> 6357) @@ (84 :> 6392) @@ (86 :> 6426) @@ (92 :> 6523) @@
  (94 :> 6554) @@ (102 :> 6672) @@ (108 :> 6754) @@ (112 :> 6807) @@
  (118 :> 6882) @@ (134 :> 7066) @@ (144 :> 7169)

calculate_entropy(password) ==
  IF password = << >> THEN 0
  ELSE LET charset == { CharClass(password[i]) : i \in 1..Len(password) }
           estimated_charset_size == EstimatedCharsetSize(charset)
       IN  IF estimated_charset_size = 0 THEN 0
           ELSE Len(password) * log2[estimated_charset_size]

\* 2**entropy of a float raises OverflowError from this entropy on: the
\* power is beyond the largest float
FloatOverflow(entropy) == entropy >= 1024 * 1000

\* log2 of the divisors 10**12, 60, 24 and 365.25
Log2Divisor ==
  [ guesses_per_second |-> 39863, sixty |-> 5907, twenty_four |-> 4585,
    days_per_year |-> 8513 ]

\* the call returns a string
Returned(unit, value) == [ raised |-> FALSE, unit |-> unit, value |-> value ]

\* the call raises OverflowError
Raised == [ raised |-> TRUE, unit |-> "-", value |-> 0 ]

estimate_crack_time(entropy) ==
  IF entropy <= 0 THEN Returned("Instantly", 0)
  ELSE IF FloatOverflow(entropy) THEN Raised
  ELSE LET total_guesses == entropy
           seconds == total_guesses - Log2Divisor.guesses_per_second
           minutes == seconds - Log2Divisor.sixty
           hours   == minutes - Log2Divisor.sixty
           days    == hours - Log2Divisor.twenty_four
           years   == days - Log2Divisor.days_per_year
       IN  IF years >= 0 THEN Returned("years", years)
           ELSE IF days >= 0 THEN Returned("days", days)
           ELSE IF hours >= 0 THEN Returned("hours", hours)
           ELSE IF minutes >= 0 THEN Returned("minutes", minutes)
           ELSE Returned("seconds", seconds)

(***************************************************************************)
(* Entropy source (secrets.choice, secrets.SystemRandom().shuffle).        *)
(***************************************************************************)
\* the characters on which the model follows the entropy source: of each
\* alphabet its first unambiguous character, and its first ambiguous one
Tracked == { "a", "l", "A", "I", "2", "0", "!" }

\* secrets.choice(seq): any element of seq (among the tracked ones)
Choice(seq) == Range(seq) \cap Tracked

\* n successive secrets.choice(seq), appended in order
Draws(seq, n) == [ 1..RangeLen(n) -> Choice(seq) ]

\* secrets.SystemRandom().shuffle(x): any rearrangement of x
Shuffle(x) ==
  { [ i \in 1..Len(x) |-> x[p[i]] ] : p \in Permutations(1..Len(x)) }

(***************************************************************************)
(* State.                                                                  *)
(***************************************************************************)
VARIABLES
  wordlist,    \* PasswordGenerator.wordlist, set by the constructor
  pc,          \* position of the caller: "idle", "random_loop", "random_regen",
               \* "phrase_loop", "phrase_drawn", "phrase_check", "done",
               \* "looked_up"
  args,        \* the arguments of the call in progress (or of the last call)
  password_chars, \* the candidate's characters (shuffled, then joined)
  phrase_words, \* the candidate's words and appended tokens
  attempts,    \* the attempt counter of the retry loop
  ret,         \* "-" until the call returns, then "None" or "str"
  result,      \* the returned string when ret = "str"
  warned,      \* the "Could not generate ... Returning last attempt" warning
  produced,    \* candidates drawn, shuffled and joined in this call
  validated,   \* candidates run through the checkers in this call
  rejected,    \* candidates the checkers rejected in this call
  draws,       \* secrets.choice calls made in this call
  invoked,     \* the checkers called on the candidate of this attempt, in the
               \* order of their calls, each with what it returned
  hibp,        \* the breach lookup the caller made for the returned password
  other,       \* the locals of a second call on the same generator, while the
               \* steps of the first one run
  probe        \* a direct call of a function of utils.py and its result

vars == << wordlist, pc, args, password_chars, phrase_words, attempts, ret, result, warned,
           produced, validated, rejected, draws, invoked, hibp, other, probe >>

\* the variables that are local to one call of a generation method
locals == << pc, args, password_chars, phrase_words, attempts, ret, result, warned,
             produced, validated, rejected, draws, invoked >>

\* no breach lookup made
NoLookup ==
  [ calls |-> 0, failed |-> FALSE, returned |-> FALSE, raised |-> FALSE,
    report |-> "none" ]

\* no second call: the locals of a call that has not begun
NoCall ==
  [ pc |-> "idle",
    args |-> [ op |-> "none", avoid_patterns_func |-> "None",
               avoid_repetitions_func |-> "None" ],
    password_chars |-> << >>, phrase_words |-> << >>, attempts |-> 0,
    ret |-> "-", result |-> << >>, warned |-> FALSE,
    produced |-> 0, validated |-> 0, rejected |-> 0, draws |-> 0,
    invoked |-> << >> ]

\* no function of utils.py called directly
NoProbe ==
  [ fn |-> "none", password |-> << >>, max_consecutive |-> 0, out |-> FALSE ]

(***************************************************************************)
(* generate_random_password                                                *)
(***************************************************************************)
\* what a caller passes as avoid_patterns_func / avoid_repetitions_func:
\* None, or a callable (check_for_common_patterns, or any other predicate)
CheckerArgs == { "None", "callable" }

\* the checkers main.py and gui.py pass
PatternCheckers == { "None", "check_for_common_patterns" }
RepetitionCheckers == { "None", "check_for_consecutive_repetitions" }

Lengths == -1..MaxLen
Minimums == 0..MaxLen

RandomArgs ==
  [ op : {"random"}, length : Lengths,
    use_lower : BOOLEAN, use_upper : BOOLEAN,
    use_digits : BOOLEAN, use_symbols : BOOLEAN,
    exclude_ambiguous : BOOLEAN,
    min_lower : Minimums, min_upper : Minimums,
    min_digits : Minimums, min_symbols : Minimums,
    avoid_patterns_func : CheckerArgs, avoid_repetitions_func : CheckerArgs ]

\* no call in progress
NoArgs ==
  [ op |-> "none", avoid_patterns_func |-> "None", avoid_repetitions_func |-> "None" ]

\* char_pool built from all four alphabets, whatever the flags
CharPool_IgnoresFlags(a) ==
  LET merged == CHARS_LOWERCASE \o CHARS_UPPERCASE \o CHARS_DIGITS \o CHARS_SYMBOLS
  IN  IF a.exclude_ambiguous THEN Without(merged, AMBIGUOUS_CHARS) ELSE merged

\* char_pool, lines 54-65
CharPool(a) ==
  LET merged ==
        (IF a.use_lower THEN CHARS_LOWERCASE ELSE << >>)
          \o (IF a.use_upper THEN CHARS_UPPERCASE ELSE << >>)
          \o (IF a.use_digits THEN CHARS_DIGITS ELSE << >>)
          \o (IF a.use_symbols THEN CHARS_SYMBOLS ELSE << >>)
  IN  IF a.exclude_ambiguous THEN Without(merged, AMBIGUOUS_CHARS) ELSE merged

\* total_min_required summed over the enabled classes only
TotalMinRequired_EnabledOnly(a) ==
  (IF a.use_lower THEN a.min_lower ELSE 0) + (IF a.use_upper THEN a.min_upper ELSE 0)
    + (IF a.use_digits THEN a.min_digits ELSE 0)
    + (IF a.use_symbols THEN a.min_symbols ELSE 0)

\* total_min_required, line 72
TotalMinRequired(a) == a.min_lower + a.min_upper + a.min_digits + a.min_symbols

\* the checks without the comparison of the minimums with the length
RandomPrecheck_NoMinCheck(a) ==
  IF ~(a.use_lower \/ a.use_upper \/ a.use_digits \/ a.use_symbols)
    THEN "NoCharacterClass"
  ELSE IF CharPool(a) = << >> THEN "EmptyPool"
  ELSE "ok"

\* the checks made before any candidate is drawn, in the order of the code
RandomPrecheck(a) ==
  IF ~(a.use_lower \/ a.use_upper \/ a.use_digits \/ a.use_symbols)
    THEN "NoCharacterClass"
  ELSE IF CharPool(a) = << >> THEN "EmptyPool"
  ELSE IF TotalMinRequired(a) > a.length THEN "ImpossibleConstraint"
  ELSE "ok"

\* step 1 with the guaranteed uppercase characters drawn from CHARS_LOWERCASE
Guaranteed_UpperFromLower(a) ==
  { l \o u \o d \o s :
      l \in Draws(CHARS_LOWERCASE, IF a.use_lower THEN a.min_lower ELSE 0),
      u \in Draws(CHARS_LOWERCASE, IF a.use_upper THEN a.min_upper ELSE 0),
      d \in Draws(CHARS_DIGITS, IF a.use_digits THEN a.min_digits ELSE 0),
      s \in Draws(CHARS_SYMBOLS, IF a.use_symbols THEN a.min_symbols ELSE 0) }

\* step 1: the guaranteed characters of the enabled classes
Guaranteed(a) ==
  { l \o u \o d \o s :
      l \in Draws(CHARS_LOWERCASE, IF a.use_lower THEN a.min_lower ELSE 0),
      u \in Draws(CHARS_UPPERCASE, IF a.use_upper THEN a.min_upper ELSE 0),
      d \in Draws(CHARS_DIGITS, IF a.use_digits THEN a.min_digits ELSE 0),
      s \in Draws(CHARS_SYMBOLS, IF a.use_symbols THEN a.min_symbols ELSE 0) }

\* steps 1 and 2 with remaining_length = length
PasswordChars_FullFill(a) ==
  UNION { { g \o f : f \in Draws(CharPool(a), a.length) } : g \in Guaranteed(a) }

\* steps 1 and 2: password_chars before the shuffle
\* (remaining_length = length - len(password_chars), filled from char_pool)
PasswordChars(a) ==
  UNION { { g \o f : f \in Draws(CharPool(a), a.length - Len(g)) } : g \in Guaranteed(a) }

\* steps 1 to 3 and the join: the candidates one attempt can produce
RandomCandidates(a) == UNION { Shuffle(x) : x \in PasswordChars(a) }

\* check_for_consecutive_repetitions bound to a max_consecutive below 1, as a
\* caller can pass it (functools.partial, a lambda)
LenientCheckers ==
  { "check_for_consecutive_repetitions, max_consecutive = 0",
    "check_for_consecutive_repetitions, max_consecutive = -1" }

\* the max_consecutive such a checker is bound to
BoundThreshold(f) ==
  IF f = "check_for_consecutive_repetitions, max_consecutive = 0" THEN 0 ELSE -1

\* what the checker f answers on the candidate s: nothing rejects when f is
\* None, the functions of utils.py answer as they compute, any other callable
\* may answer either way
CheckerSays(f, s) ==
  CASE f = "None" -> { FALSE }
    [] f = "check_for_common_patterns" -> { check_for_common_patterns(s) }
    [] f = "check_for_consecutive_repetitions"
         -> { check_for_consecutive_repetitions(s, DefaultMaxConsecutive) }
    [] f \in LenientCheckers
         -> { check_for_consecutive_repetitions(s, BoundThreshold(f)) }
    [] OTHER -> BOOLEAN

\* a call of a checker and what it returned
Invocation(checker, said) == [ checker |-> checker, said |-> said ]

\* `if avoid_patterns_func and avoid_patterns_func(s)`: the calls made
PatternsStep(a, s) ==
  IF a.avoid_patterns_func = "None" THEN { << >> }
  ELSE { << Invocation("avoid_patterns_func", p) >> :
           p \in CheckerSays(a.avoid_patterns_func, s) }

\* is_valid after the calls t: no checker returned True
IsValidAfter(t) == \A i \in 1..Len(t) : ~ t[i].said

\* only avoid_patterns_func is consulted
Validations_PatternsOnly(a, s) == PatternsStep(a, s)

\* avoid_repetitions_func is consulted whatever is_valid has become
Validations_NoShortCircuit(a, s) ==
  UNION { IF a.avoid_repetitions_func # "None"
            THEN { t \o << Invocation("avoid_repetitions_func", r) >> :
                     r \in CheckerSays(a.avoid_repetitions_func, s) }
            ELSE { t } : t \in PatternsStep(a, s) }

\* the validation of the candidate s: the calls it can make, in their order.
\* `if is_valid and avoid_repetitions_func and avoid_repetitions_func(s)`
\* comes second and calls nothing once is_valid is False
Validations(a, s) ==
  UNION { IF IsValidAfter(t) /\ a.avoid_repetitions_func # "None"
            THEN { t \o << Invocation("avoid_repetitions_func", r) >> :
                     r \in CheckerSays(a.avoid_repetitions_func, s) }
            ELSE { t } : t \in PatternsStep(a, s) }

Return(value) ==
  /\ pc' = "done"
  /\ ret' = "str"
  /\ result' = value

ReturnNone ==
  /\ pc' = "done"
  /\ ret' = "None"
  /\ result' = << >>

\* generated_password: "".join(password_chars).  It is read (validated or
\* returned) only while password_chars is the list it was joined from.
JoinChars(chars) == [ i \in 1..Len(chars) |-> chars[i] ]

generated_password == JoinChars(password_chars)

\* the call up to the retry loop: the precondition checks, then the first
\* candidate (lines 50-106)
RandomCallWith(Args) ==
  /\ pc = "idle"
  /\ \E a \in Args :
       /\ args' = a
       /\ attempts' = 0
       /\ warned' = FALSE
       /\ validated' = 0
       /\ rejected' = 0
       /\ invoked' = << >>
       /\ IF RandomPrecheck(a) # "ok"
            THEN /\ ReturnNone
                 /\ password_chars' = << >>
                 /\ produced' = 0
                 /\ draws' = 0
            ELSE /\ \E c \in RandomCandidates(a) : password_chars' = c
                 /\ produced' = 1
                 /\ draws' = Len(password_chars')
                 /\ pc' = "random_loop"
                 /\ ret' = "-"
                 /\ result' = << >>
  /\ UNCHANGED << hibp, other, probe, wordlist, phrase_words >>

RandomCall == RandomCallWith(RandomArgs)

\* an accepted candidate is not returned: the loop goes on to regenerate
RandomAccept_NoReturn ==
  /\ pc = "random_loop"
  /\ attempts < max_attempts
  /\ \E t \in Validations(args, generated_password) :
       IsValidAfter(t) /\ invoked' = t
  /\ validated' = validated + 1
  /\ rejected' = rejected
  /\ password_chars' = << >>
  /\ pc' = "random_regen"
  /\ UNCHANGED << hibp, other, probe, wordlist, args, phrase_words, attempts, ret, result, warned,
                  produced, draws >>

\* an iteration of the retry loop whose candidate is accepted (lines 107-115)
RandomAccept ==
  /\ pc = "random_loop"
  /\ attempts < max_attempts
  /\ \E t \in Validations(args, generated_password) :
       IsValidAfter(t) /\ invoked' = t
  /\ validated' = validated + 1
  /\ rejected' = rejected
  /\ Return(generated_password)
  /\ UNCHANGED << hibp, other, probe, wordlist, args, password_chars, phrase_words, attempts, warned,
                  produced, draws >>

\* an iteration of the retry loop whose candidate is rejected, up to the
\* reset of password_chars (lines 107-118)
RandomReject ==
  /\ pc = "random_loop"
  /\ attempts < max_attempts
  /\ \E t \in Validations(args, generated_password) :
       ~ IsValidAfter(t) /\ invoked' = t
  /\ validated' = validated + 1
  /\ rejected' = rejected + 1
  /\ password_chars' = << >>
  /\ pc' = "random_regen"
  /\ UNCHANGED << hibp, other, probe, wordlist, args, phrase_words, attempts, ret, result, warned,
                  produced, draws >>

\* the rest of that iteration: the whole password is regenerated
\* (lines 119-140)
RandomRegenerate ==
  /\ pc = "random_regen"
  /\ \E c \in RandomCandidates(args) : password_chars' = c
  /\ produced' = produced + 1
  /\ draws' = draws + Len(password_chars')
  /\ attempts' = attempts + 1
  /\ invoked' = << >>
  /\ pc' = "random_loop"
  /\ UNCHANGED << hibp, other, probe, wordlist, args, phrase_words, ret, result, warned, validated, rejected >>

\* the loop ends without an accepted candidate (lines 142-143)
RandomExhausted ==
  /\ pc = "random_loop"
  /\ attempts >= max_attempts
  /\ warned' = TRUE
  /\ Return(generated_password)
  /\ UNCHANGED << hibp, other, probe, wordlist, args, password_chars, phrase_words, attempts, produced,
                  validated, rejected, draws, invoked >>

(***************************************************************************)
(* generate_passphrase                                                     *)
(***************************************************************************)
\* delimiters a call is given: the default "-", and a punctuation character
\* the entropy source can also draw as the appended symbol
Delimiters == { << "-" >>, << "!" >> }

PhraseArgs ==
  [ op : {"passphrase"}, word_count : Lengths,
    delimiter : Delimiters,
    capitalize_words : BOOLEAN, add_number : BOOLEAN, add_symbol : BOOLEAN,
    avoid_patterns_func : CheckerArgs, avoid_repetitions_func : CheckerArgs ]

\* str.capitalize: first character upper-cased, the others lower-cased
Capitalize(word) ==
  [ i \in 1..Len(word) |-> IF i = 1 THEN UpperChar(word[i]) ELSE LowerChar(word[i]) ]

\* delimiter.join(words)
RECURSIVE Join(_, _)
Join(delimiter, words) ==
  IF words = << >> THEN << >>
  ELSE IF Len(words) = 1 THEN words[1]
  ELSE words[1] \o delimiter \o Join(delimiter, Tail(words))

\* the checks without the one of the word list
PhrasePrecheck_NoWordlistCheck(a, wl) ==
  IF a.word_count <= 0 THEN "InvalidCount" ELSE "ok"

\* the checks without the one of word_count
PhrasePrecheck_NoCountCheck(a, wl) ==
  IF wl = << >> THEN "NoWordlist" ELSE "ok"

\* the checks made before any word is drawn (lines 159-164)
PhrasePrecheck(a, wl) ==
  IF wl = << >> THEN "NoWordlist"
  ELSE IF a.word_count <= 0 THEN "InvalidCount"
  ELSE "ok"

\* the words of one attempt (line 169)
PhraseWords(a, wl) == [ 1..RangeLen(a.word_count) -> Range(wl) ]

\* the drawn words capitalized and augmented (lines 171-177)
PhraseTokens(a, w) ==
  { (IF a.capitalize_words THEN [ i \in 1..Len(w) |-> Capitalize(w[i]) ] ELSE w)
      \o n \o y :
      n \in IF a.add_number THEN { << << d >> >> : d \in Choice(CHARS_DIGITS) } ELSE { << >> },
      y \in IF a.add_symbol THEN { << << c >> >> : c \in Choice(CHARS_SYMBOLS) } ELSE { << >> } }

\* phrase_words shuffled whether or not anything was added
PhraseCandidates_AlwaysShuffled(a, w) ==
  UNION { Shuffle(t) : t \in PhraseTokens(a, w) }

\* phrase_words of one attempt: shuffled when a number or a symbol was added
\* (lines 171-181)
PhraseCandidates(a, w) ==
  IF a.add_number \/ a.add_symbol
    THEN UNION { Shuffle(t) : t \in PhraseTokens(a, w) }
    ELSE PhraseTokens(a, w)

\* secrets.choice calls of lines 175 and 177
AugmentDraws(a) == (IF a.add_number THEN 1 ELSE 0) + (IF a.add_symbol THEN 1 ELSE 0)

\* generated_passphrase (line 183).  It is read (validated or returned) only
\* while phrase_words is the list it was joined from.
generated_passphrase == Join(args.delimiter, phrase_words)

\* the call up to the retry loop (lines 159-167)
PhraseCallWith(Args) ==
  /\ pc = "idle"
  /\ \E a \in Args :
       /\ args' = a
       /\ IF PhrasePrecheck(a, wordlist) # "ok"
            THEN ReturnNone
            ELSE /\ pc' = "phrase_loop"
                 /\ ret' = "-"
                 /\ result' = << >>
  /\ attempts' = 0
  /\ warned' = FALSE
  /\ produced' = 0
  /\ validated' = 0
  /\ rejected' = 0
  /\ draws' = 0
  /\ invoked' = << >>
  /\ UNCHANGED << hibp, other, probe, wordlist, password_chars, phrase_words >>

PhraseCall == PhraseCallWith(PhraseArgs)

\* an attempt begins: the words are drawn (lines 168-169)
PhraseDrawWords ==
  /\ pc = "phrase_loop"
  /\ attempts < max_attempts
  /\ \E w \in PhraseWords(args, wordlist) : phrase_words' = w
  /\ draws' = draws + RangeLen(args.word_count)
  /\ invoked' = << >>
  /\ pc' = "phrase_drawn"
  /\ UNCHANGED << hibp, other, probe, wordlist, args, password_chars, attempts, ret, result, warned,
                  produced, validated, rejected >>

\* the words are capitalized, augmented, shuffled and joined (lines 171-183)
PhraseAugment ==
  /\ pc = "phrase_drawn"
  /\ \E c \in PhraseCandidates(args, phrase_words) : phrase_words' = c
  /\ produced' = produced + 1
  /\ draws' = draws + AugmentDraws(args)
  /\ pc' = "phrase_check"
  /\ UNCHANGED << hibp, other, probe, wordlist, args, password_chars, attempts, ret, result, warned,
                  validated, rejected, invoked >>

\* the candidate is accepted and returned (lines 185-192)
PhraseAccept ==
  /\ pc = "phrase_check"
  /\ \E t \in Validations(args, generated_passphrase) :
       IsValidAfter(t) /\ invoked' = t
  /\ validated' = validated + 1
  /\ rejected' = rejected
  /\ Return(generated_passphrase)
  /\ UNCHANGED << hibp, other, probe, wordlist, args, password_chars, phrase_words, attempts, warned,
                  produced, draws >>

\* the candidate is rejected and the attempt is not counted
PhraseReject_NoCount ==
  /\ pc = "phrase_check"
  /\ \E t \in Validations(args, generated_passphrase) :
       ~ IsValidAfter(t) /\ invoked' = t
  /\ validated' = validated + 1
  /\ rejected' = rejected + 1
  /\ pc' = "phrase_loop"
  /\ UNCHANGED << hibp, other, probe, wordlist, args, password_chars, phrase_words, attempts,
                  ret, result, warned, produced, draws >>

\* the candidate is rejected (lines 185-194)
PhraseReject ==
  /\ pc = "phrase_check"
  /\ \E t \in Validations(args, generated_passphrase) :
       ~ IsValidAfter(t) /\ invoked' = t
  /\ validated' = validated + 1
  /\ rejected' = rejected + 1
  /\ attempts' = attempts + 1
  /\ pc' = "phrase_loop"
  /\ UNCHANGED << hibp, other, probe, wordlist, args, password_chars, phrase_words, ret, result, warned,
                  produced, draws >>

\* the loop ends without an accepted candidate (lines 196-197)
PhraseExhausted ==
  /\ pc = "phrase_loop"
  /\ attempts >= max_attempts
  /\ warned' = TRUE
  /\ Return(generated_passphrase)
  /\ UNCHANGED << hibp, other, probe, wordlist, args, password_chars, phrase_words, attempts, produced,
                  validated, rejected, draws, invoked >>

(***************************************************************************)
(* utils.py: check_pwned_password, and its callers                         *)
(***************************************************************************)
\* largest number of lines of a response body
MaxLines == 2

\* what requests.get and raise_for_status do: a response with a success
\* status, or an exception derived from RequestException
Transports == { "ok", "ConnectionError", "Timeout", "HTTPError" }

\* a line of the response body: the suffix of the password's hash with a
\* count, another suffix with a count, or a line that does not split in two
\* at ':'
LineKinds == { "match", "other", "malformed" }

ResponseBodies == UNION { [ 1..n -> LineKinds ] : n \in 0..MaxLines }

\* the loop over response.text.splitlines(), from line i on
RECURSIVE ScanResponse(_, _)
ScanResponse(lines, i) ==
  IF i > Len(lines) THEN "absent"
  ELSE IF lines[i] = "malformed" THEN "ValueError"
  ELSE IF lines[i] = "match" THEN "found"
  ELSE ScanResponse(lines, i + 1)

\* what happens inside the try block
LookupOutcome(transport, lines) ==
  IF transport # "ok" THEN "RequestException" ELSE ScanResponse(lines, 1)

\* the function without its `except Exception` clause
check_pwned_password_NoCatchAll(transport, lines) ==
  LET outcome == LookupOutcome(transport, lines)
  IN  [ returned |-> outcome = "found",
        raised |-> outcome = "ValueError",
        failed |-> outcome \in { "RequestException", "ValueError" } ]

\* check_pwned_password: True when the suffix is found, False when it is not
\* and in both except clauses
check_pwned_password(transport, lines) ==
  LET outcome == LookupOutcome(transport, lines)
  IN  [ returned |-> outcome = "found",
        raised |-> FALSE,
        failed |-> outcome \in { "RequestException", "ValueError" } ]

\* the caller looks the returned password up, when there is one, and reports
\* (main.py lines 166-180, gui.py lines 291 and 315-321)
BreachLookup ==
  /\ pc = "done"
  /\ ret = "str"
  /\ result # << >>
  /\ \E transport \in Transports, lines \in ResponseBodies :
       LET r == check_pwned_password(transport, lines)
       IN  hibp' = [ calls |-> hibp.calls + 1,
                     failed |-> r.failed,
                     returned |-> r.returned,
                     raised |-> r.raised,
                     report |-> IF r.raised THEN "none"
                                ELSE IF r.returned THEN "found in a data breach"
                                ELSE "not found in public breaches" ]
  /\ pc' = "looked_up"
  /\ UNCHANGED << other, probe, wordlist, args, password_chars, phrase_words, attempts,
                  ret, result, warned, produced, validated, rejected, draws, invoked >>

\* the caller takes the returned value; the generator is ready for the next
\* call (main.py, the loop over args.count)
NextCall ==
  /\ pc \in { "done", "looked_up" }
  /\ pc' = "idle"
  /\ args' = NoArgs
  /\ password_chars' = << >>
  /\ phrase_words' = << >>
  /\ attempts' = 0
  /\ ret' = "-"
  /\ result' = << >>
  /\ warned' = FALSE
  /\ produced' = 0
  /\ validated' = 0
  /\ rejected' = 0
  /\ draws' = 0
  /\ invoked' = << >>
  /\ hibp' = NoLookup
  /\ UNCHANGED << other, probe, wordlist >>

(***************************************************************************)
(* Specification.                                                          *)
(***************************************************************************)
\* the word source after construction: loaded, or empty when loading failed
Wordlists == { << >>, << <<"a", "b">>, <<"l", "o">> >> }

Init ==
  /\ wordlist \in Wordlists
  /\ pc = "idle"
  /\ args = NoArgs
  /\ password_chars = << >>
  /\ phrase_words = << >>
  /\ attempts = 0
  /\ ret = "-"
  /\ result = << >>
  /\ warned = FALSE
  /\ produced = 0
  /\ validated = 0
  /\ rejected = 0
  /\ draws = 0
  /\ invoked = << >>
  /\ hibp = NoLookup
  /\ other = NoCall
  /\ probe = NoProbe

Next ==
  \/ RandomCall
  \/ RandomAccept
  \/ RandomReject
  \/ RandomRegenerate
  \/ RandomExhausted
  \/ PhraseCall
  \/ PhraseDrawWords
  \/ PhraseAugment
  \/ PhraseAccept
  \/ PhraseReject
  \/ PhraseExhausted
  \/ NextCall

Spec == Init /\ [][Next]_vars

\* a generator whose word list was loaded
InitLoaded == Init /\ wordlist # << >>

\* both generation methods on a generator whose word list was loaded
SpecLoaded == InitLoaded /\ [][Next]_vars

\* the calls of generate_random_password with at most one checker, passed as
\* avoid_patterns_func: any candidate can be rejected, and the candidates
\* drawn do not depend on which argument carries the checker
SingleCheckerRandomArgs ==
  { a \in RandomArgs : a.avoid_repetitions_func = "None" }

RandomCallSingleChecker == RandomCallWith(SingleCheckerRandomArgs)

\* generate_random_password alone
NextRandom ==
  \/ RandomCallSingleChecker
  \/ RandomAccept
  \/ RandomReject
  \/ RandomRegenerate
  \/ RandomExhausted
  \/ NextCall

SpecRandom == InitLoaded /\ [][NextRandom]_vars

\* generate_passphrase alone, on a generator whose word list was loaded or not
NextPhrase ==
  \/ PhraseCall
  \/ PhraseDrawWords
  \/ PhraseAugment
  \/ PhraseAccept
  \/ PhraseReject
  \/ PhraseExhausted
  \/ NextCall

SpecPhrase == Init /\ [][NextPhrase]_vars

\* a step of a call in progress
CallStep ==
  \/ RandomAccept
  \/ RandomReject
  \/ RandomRegenerate
  \/ RandomExhausted
  \/ PhraseDrawWords
  \/ PhraseAugment
  \/ PhraseAccept
  \/ PhraseReject
  \/ PhraseExhausted

\* generate_random_password(length, avoid_patterns_func=...,
\* avoid_repetitions_func=...): the other arguments at their defaults
DefaultRandomArgs ==
  [ op : {"random"}, length : Lengths,
    use_lower : {TRUE}, use_upper : {TRUE},
    use_digits : {TRUE}, use_symbols : {TRUE},
    exclude_ambiguous : {FALSE},
    min_lower : {0}, min_upper : {0}, min_digits : {0}, min_symbols : {0},
    avoid_patterns_func : CheckerArgs, avoid_repetitions_func : CheckerArgs ]

\* generate_passphrase(word_count, avoid_patterns_func=...,
\* avoid_repetitions_func=...): the other arguments at their defaults
DefaultPhraseArgs ==
  [ op : {"passphrase"}, word_count : Lengths,
    delimiter : { << "-" >> },
    capitalize_words : {FALSE}, add_number : {FALSE}, add_symbol : {FALSE},
    avoid_patterns_func : CheckerArgs, avoid_repetitions_func : CheckerArgs ]

RandomCallDefault == RandomCallWith(DefaultRandomArgs)

PhraseCallDefault == PhraseCallWith(DefaultPhraseArgs)

NextDefault ==
  \/ RandomCallDefault
  \/ PhraseCallDefault
  \/ CallStep
  \/ NextCall

\* both generation methods, a call in progress running on to its return
\* (a call is straight-line code and loops of one thread: it does not wait)
SpecRunning == InitLoaded /\ [][NextDefault]_vars /\ WF_vars(CallStep)

\* sequences of calls of both methods on one generator, whose word list was
\* loaded or not
NextSequence ==
  \/ RandomCallDefault
  \/ PhraseCall
  \/ CallStep
  \/ NextCall

SpecSequence == Init /\ [][NextSequence]_vars

(***************************************************************************)
(* The checkers of utils.py called on their own.                           *)
(***************************************************************************)
\* longest string of the first family of inputs
MaxProbeLen == 4

\* largest max_consecutive
MaxThreshold == 3

\* longest padding around a pattern, on either side
MaxPad == 1

\* all strings of at most n characters of the set S
StringsUpTo(S, n) == UNION { [ 1..m -> S ] : m \in 0..n }

\* strings with and without runs of one character, in both cases of a letter
RunStrings == StringsUpTo({ "a", "A", "1" }, MaxProbeLen)

\* s without its last character
Front(s) == SubSeq(s, 1, Len(s) - 1)

\* the tokens of the pattern list as they are, upper-cased, capitalized, and
\* cut short by one character
PatternCores ==
  UNION { { COMMON_PATTERNS[k], Upper(COMMON_PATTERNS[k]),
            << UpperChar(COMMON_PATTERNS[k][1]) >> \o Tail(COMMON_PATTERNS[k]),
            Front(COMMON_PATTERNS[k]) } : k \in 1..Len(COMMON_PATTERNS) }

\* a core with some characters before and after it
PatternStrings ==
  { l \o c \o r : l \in StringsUpTo({ "x", "P" }, MaxPad), c \in PatternCores,
                  r \in StringsUpTo({ "x", "3" }, MaxPad) }

ProbeStrings == RunStrings \cup PatternStrings

Thresholds == -1..MaxThreshold

\* the arguments of the call to come
InitUtils ==
  /\ probe \in [ fn : {"none"}, password : ProbeStrings,
                 max_consecutive : Thresholds, out : {FALSE} ]
  /\ wordlist = << >>
  /\ pc = "idle"
  /\ args = NoArgs
  /\ password_chars = << >>
  /\ phrase_words = << >>
  /\ attempts = 0
  /\ ret = "-"
  /\ result = << >>
  /\ warned = FALSE
  /\ produced = 0
  /\ validated = 0
  /\ rejected = 0
  /\ draws = 0
  /\ invoked = << >>
  /\ hibp = NoLookup
  /\ other = NoCall

\* check_for_consecutive_repetitions(password, max_consecutive) is called
CallRepetitions ==
  /\ probe.fn = "none"
  /\ probe' = [ probe EXCEPT
                  !.fn = "check_for_consecutive_repetitions",
                  !.out = check_for_consecutive_repetitions(probe.password,
                                                            probe.max_consecutive) ]
  /\ UNCHANGED << hibp, other, wordlist, locals >>

\* check_for_common_patterns(password) is called
CallPatterns ==
  /\ probe.fn = "none"
  /\ probe' = [ probe EXCEPT
                  !.fn = "check_for_common_patterns",
                  !.out = check_for_common_patterns(probe.password) ]
  /\ UNCHANGED << hibp, other, wordlist, locals >>

NextUtils ==
  \/ CallRepetitions
  \/ CallPatterns

SpecUtils == InitUtils /\ [][NextUtils]_vars

(***************************************************************************)
(* The strength estimates of utils.py called on their own, and one after   *)
(* the other as main.py and gui.py report a password.                      *)
(***************************************************************************)
\* longest password of the family of short passwords
MaxEntropyLen == 2

\* one character of each class; the space and the accented e are of the
\* class "other"
EntropyChars == { "a", "Z", "5", "!", " ", "e-acute" }

EntropyStrings == StringsUpTo(EntropyChars, MaxEntropyLen)

\* a password of 157 characters of the four built-in classes, as
\* `--length 157` gives
LongPassword == [ i \in 1..157 |-> << "a", "Z", "5", "!" >>[(i % 4) + 1] ]

\* the entropies at which estimate_crack_time changes its answer, the ones
\* just below them, and some on either side
CrackTimeEntropies ==
  LET L == Log2Divisor
      second == L.guesses_per_second
      minute == second + L.sixty
      hour   == minute + L.sixty
      day    == hour + L.twenty_four
      year   == day + L.days_per_year
  IN  { -1000, 0, 1, 20000, 128000, 1024 * 1000 - 1, 1024 * 1000, 2000 * 1000 }
      \cup { b - d : b \in { second, minute, hour, day, year }, d \in { 0, 1 } }

\* the password of the calls to come
InitStrength ==
  /\ probe \in [ fn : {"none"}, password : EntropyStrings \cup { LongPassword },
                 entropy : {0}, out : {FALSE} ]
  /\ wordlist = << >>
  /\ pc = "idle"
  /\ args = NoArgs
  /\ password_chars = << >>
  /\ phrase_words = << >>
  /\ attempts = 0
  /\ ret = "-"
  /\ result = << >>
  /\ warned = FALSE
  /\ produced = 0
  /\ validated = 0
  /\ rejected = 0
  /\ draws = 0
  /\ invoked = << >>
  /\ hibp = NoLookup
  /\ other = NoCall

\* calculate_entropy(password) is called
CallEntropy ==
  /\ probe.fn = "none"
  /\ probe' = [ probe EXCEPT !.fn = "calculate_entropy",
                             !.out = calculate_entropy(probe.password) ]
  /\ UNCHANGED << hibp, other, wordlist, locals >>

\* estimate_crack_time(entropy) is called
CallCrackTime ==
  /\ probe.fn = "none"
  /\ \E entropy \in CrackTimeEntropies :
       probe' = [ probe EXCEPT !.fn = "estimate_crack_time",
                               !.entropy = entropy,
                               !.out = estimate_crack_time(entropy) ]
  /\ UNCHANGED << hibp, other, wordlist, locals >>

\* the report of a generated password: its entropy, then the crack time of
\* that entropy
ReportStrength ==
  /\ probe.fn = "none"
  /\ probe.password # << >>
  /\ LET entropy == calculate_entropy(probe.password)
     IN  probe' = [ probe EXCEPT !.fn = "report",
                                 !.entropy = entropy,
                                 !.out = estimate_crack_time(entropy) ]
  /\ UNCHANGED << hibp, other, wordlist, locals >>

NextStrength ==
  \/ CallEntropy
  \/ CallCrackTime
  \/ ReportStrength

SpecStrength == InitStrength /\ [][NextStrength]_vars

(***************************************************************************)
(* Two calls on one generator, their steps interleaved.                    *)
(***************************************************************************)
\* the locals of the call whose steps run
Current ==
  [ pc |-> pc, args |-> args,
    password_chars |-> password_chars, phrase_words |-> phrase_words,
    attempts |-> attempts, ret |-> ret, result |-> result, warned |-> warned,
    produced |-> produced, validated |-> validated, rejected |-> rejected,
    draws |-> draws, invoked |-> invoked ]

\* the steps of the other call run from now on, and the candidate buffers
\* are not local: both calls work on the same password_chars and phrase_words
Switch_SharedBuffers ==
  /\ other' = [ Current EXCEPT !.password_chars = << >>, !.phrase_words = << >> ]
  /\ pc' = other.pc
  /\ args' = other.args
  /\ attempts' = other.attempts
  /\ ret' = other.ret
  /\ result' = other.result
  /\ warned' = other.warned
  /\ produced' = other.produced
  /\ validated' = other.validated
  /\ rejected' = other.rejected
  /\ draws' = other.draws
  /\ invoked' = other.invoked
  /\ UNCHANGED << hibp, probe, wordlist, password_chars, phrase_words >>

\* the steps of the other call run from now on: each call has its own frame
\* of locals, the generator (self.wordlist) and the alphabets are shared
Switch ==
  /\ other' = Current
  /\ pc' = other.pc
  /\ args' = other.args
  /\ password_chars' = other.password_chars
  /\ phrase_words' = other.phrase_words
  /\ attempts' = other.attempts
  /\ ret' = other.ret
  /\ result' = other.result
  /\ warned' = other.warned
  /\ produced' = other.produced
  /\ validated' = other.validated
  /\ rejected' = other.rejected
  /\ draws' = other.draws
  /\ invoked' = other.invoked
  /\ UNCHANGED << hibp, probe, wordlist >>

\* the two calls: a password of lowercase letters and a passphrase of one
\* word, each with a pattern checker
SharedRandomArgs ==
  [ op : {"random"}, length : {1},
    use_lower : {TRUE}, use_upper : {FALSE},
    use_digits : {FALSE}, use_symbols : {FALSE},
    exclude_ambiguous : {FALSE},
    min_lower : {0}, min_upper : {0}, min_digits : {0}, min_symbols : {0},
    avoid_patterns_func : {"callable"}, avoid_repetitions_func : {"None"} ]

SharedPhraseArgs ==
  [ op : {"passphrase"}, word_count : {1},
    delimiter : { << "-" >> },
    capitalize_words : {FALSE}, add_number : {FALSE}, add_symbol : {FALSE},
    avoid_patterns_func : {"callable"}, avoid_repetitions_func : {"None"} ]

RandomCallShared ==
  /\ other.args.op # "random"
  /\ RandomCallWith(SharedRandomArgs)

PhraseCallShared ==
  /\ other.args.op # "passphrase"
  /\ PhraseCallWith(SharedPhraseArgs)

NextShared ==
  \/ RandomCallShared
  \/ PhraseCallShared
  \/ CallStep
  \/ Switch

SpecShared == InitLoaded /\ [][NextShared]_vars

\* the generation methods and the caller's breach lookup
NextCaller ==
  \/ RandomCallDefault
  \/ PhraseCallDefault
  \/ CallStep
  \/ BreachLookup
  \/ NextCall

SpecCaller == InitLoaded /\ [][NextCaller]_vars

(***************************************************************************)
(* The generation methods with the checkers of utils.py, as main.py and    *)
(* gui.py call them.                                                       *)
(***************************************************************************)
\* a word list with a word that is a common pattern and a word with a run of
\* three identical characters
CheckedWordlist ==
  << << "m", "a", "r", "y" >>, << "a", "b" >>, << "a", "a", "a" >> >>

\* a password of digits (--no-lower --no-upper --no-symbols): of 3 digits, which
\* can be a run of three identical characters, with any of the checkers; and
\* of 6 digits, which can be a common pattern (222222), with the pattern
\* checker alone
CheckedRandomArgs ==
  [ op : {"random"}, length : {3},
    use_lower : {FALSE}, use_upper : {FALSE},
    use_digits : {TRUE}, use_symbols : {FALSE},
    exclude_ambiguous : {FALSE},
    min_lower : {0}, min_upper : {0}, min_digits : {0}, min_symbols : {0},
    avoid_patterns_func : PatternCheckers,
    avoid_repetitions_func : RepetitionCheckers ]
  \cup
  [ op : {"random"}, length : {6},
    use_lower : {FALSE}, use_upper : {FALSE},
    use_digits : {TRUE}, use_symbols : {FALSE},
    exclude_ambiguous : {FALSE},
    min_lower : {0}, min_upper : {0}, min_digits : {0}, min_symbols : {0},
    avoid_patterns_func : {"check_for_common_patterns"},
    avoid_repetitions_func : {"None"} ]

CheckedPhraseArgs ==
  [ op : {"passphrase"}, word_count : Lengths,
    delimiter : { << "-" >> },
    capitalize_words : BOOLEAN, add_number : BOOLEAN, add_symbol : BOOLEAN,
    avoid_patterns_func : PatternCheckers,
    avoid_repetitions_func : RepetitionCheckers ]

RandomCallChecked == RandomCallWith(CheckedRandomArgs)

PhraseCallChecked == PhraseCallWith(CheckedPhraseArgs)

InitChecked ==
  /\ wordlist = CheckedWordlist
  /\ pc = "idle"
  /\ args = NoArgs
  /\ password_chars = << >>
  /\ phrase_words = << >>
  /\ attempts = 0
  /\ ret = "-"
  /\ result = << >>
  /\ warned = FALSE
  /\ produced = 0
  /\ validated = 0
  /\ rejected = 0
  /\ draws = 0
  /\ invoked = << >>
  /\ hibp = NoLookup
  /\ other = NoCall
  /\ probe = NoProbe

NextChecked ==
  \/ RandomCallChecked
  \/ RandomAccept
  \/ RandomReject
  \/ RandomRegenerate
  \/ RandomExhausted
  \/ PhraseCallChecked
  \/ PhraseDrawWords
  \/ PhraseAugment
  \/ PhraseAccept
  \/ PhraseReject
  \/ PhraseExhausted
  \/ NextCall

SpecChecked == InitChecked /\ [][NextChecked]_vars

(***************************************************************************)
(* Passphrases of several words, with and without a number and a symbol.   *)
(***************************************************************************)
\* largest word_count of these calls
MaxWords == 2

AugmentArgs ==
  [ op : {"passphrase"}, word_count : 1..MaxWords,
    delimiter : { << "-" >> },
    capitalize_words : BOOLEAN, add_number : BOOLEAN, add_symbol : BOOLEAN,
    avoid_patterns_func : {"None"}, avoid_repetitions_func : {"None"} ]

PhraseCallAugment == PhraseCallWith(AugmentArgs)

NextAugment ==
  \/ PhraseCallAugment
  \/ PhraseDrawWords
  \/ PhraseAugment
  \/ PhraseAccept
  \/ NextCall

SpecAugment == InitLoaded /\ [][NextAugment]_vars

(***************************************************************************)
(* check_for_consecutive_repetitions with a max_consecutive below 1,       *)
(* called on its own and passed to the generation methods.                 *)
(***************************************************************************)
LenientThresholds == -MaxThreshold..0

\* passwords of three digits, which can be a run of one digit
LenientRandomArgs ==
  [ op : {"random"}, length : {3},
    use_lower : {FALSE}, use_upper : {FALSE},
    use_digits : {TRUE}, use_symbols : {FALSE},
    exclude_ambiguous : {FALSE},
    min_lower : {0}, min_upper : {0}, min_digits : {0}, min_symbols : {0},
    avoid_patterns_func : {"None"},
    avoid_repetitions_func : LenientCheckers ]

\* passphrases of one word, which can be a run of one letter
LenientPhraseArgs ==
  [ op : {"passphrase"}, word_count : {1},
    delimiter : { << "-" >> },
    capitalize_words : {FALSE}, add_number : {FALSE}, add_symbol : {FALSE},
    avoid_patterns_func : {"None"},
    avoid_repetitions_func : LenientCheckers ]

RandomCallLenient == RandomCallWith(LenientRandomArgs)

PhraseCallLenient == PhraseCallWith(LenientPhraseArgs)

InitLenient ==
  /\ probe \in [ fn : {"none"}, password : RunStrings,
                 max_consecutive : LenientThresholds, out : {FALSE} ]
  /\ wordlist = CheckedWordlist
  /\ pc = "idle"
  /\ args = NoArgs
  /\ password_chars = << >>
  /\ phrase_words = << >>
  /\ attempts = 0
  /\ ret = "-"
  /\ result = << >>
  /\ warned = FALSE
  /\ produced = 0
  /\ validated = 0
  /\ rejected = 0
  /\ draws = 0
  /\ invoked = << >>
  /\ hibp = NoLookup
  /\ other = NoCall

NextLenient ==
  \/ CallRepetitions
  \/ RandomCallLenient
  \/ RandomAccept
  \/ PhraseCallLenient
  \/ PhraseDrawWords
  \/ PhraseAugment
  \/ PhraseAccept
  \/ NextCall

SpecLenient == InitLenient /\ [][NextLenient]_vars

(***************************************************************************)
(* generate_random_password with every combination of the class flags, of  *)
(* exclude_ambiguous and of the minimums, and no checker.                   *)
(***************************************************************************)
UncheckedRandomArgs ==
  { a \in RandomArgs :
      a.avoid_patterns_func = "None" /\ a.avoid_repetitions_func = "None" }

RandomCallUnchecked == RandomCallWith(UncheckedRandomArgs)

NextUnchecked ==
  \/ RandomCallUnchecked
  \/ RandomAccept
  \/ NextCall

SpecUnchecked == InitLoaded /\ [][NextUnchecked]_vars

(***************************************************************************)
(* Properties.                                                             *)
(***************************************************************************)
IsRandom == args.op = "random"
IsPhrase == args.op = "passphrase"

AnyClass(a) == a.use_lower \/ a.use_upper \/ a.use_digits \/ a.use_symbols

SumOfMinimums(a) == a.min_lower + a.min_upper + a.min_digits + a.min_symbols

\* a valid random-mode configuration
ValidRandomConfig(a) ==
  /\ AnyClass(a)
  /\ a.min_lower >= 0 /\ a.min_upper >= 0 /\ a.min_digits >= 0 /\ a.min_symbols >= 0
  /\ SumOfMinimums(a) <= a.length
  /\ a.length > 0

\* the characters of the classes whose flag is true
AllowedChars(a) ==
  (IF a.use_lower THEN Range(CHARS_LOWERCASE) ELSE {})
    \cup (IF a.use_upper THEN Range(CHARS_UPPERCASE) ELSE {})
    \cup (IF a.use_digits THEN Range(CHARS_DIGITS) ELSE {})
    \cup (IF a.use_symbols THEN Range(CHARS_SYMBOLS) ELSE {})

\* s holds at least min_X characters of every enabled class X
EnabledMinimumsMet(a, s) ==
  /\ a.use_lower => CountIn(s, Range(CHARS_LOWERCASE)) >= a.min_lower
  /\ a.use_upper => CountIn(s, Range(CHARS_UPPERCASE)) >= a.min_upper
  /\ a.use_digits => CountIn(s, Range(CHARS_DIGITS)) >= a.min_digits
  /\ a.use_symbols => CountIn(s, Range(CHARS_SYMBOLS)) >= a.min_symbols

\* the candidate the call produced last
LastCandidate == IF IsRandom THEN generated_password ELSE generated_passphrase

\* C1: for a valid random-mode configuration every returned string, accepted
\* or returned after the retry cap, has exactly `length` characters.
C1_LengthExact ==
  (pc = "done" /\ IsRandom /\ ret = "str" /\ ValidRandomConfig(args))
    => Len(result) = args.length

\* a string of the largest length returned after the retry cap
C1_Witness ==
  /\ pc = "done" /\ IsRandom /\ ret = "str" /\ ValidRandomConfig(args)
  /\ warned /\ args.length = MaxLen
  /\ Len(result) = MaxLen

\* C2: for a valid random-mode configuration the first candidate, every
\* regenerated candidate and the returned password hold at least min_X
\* characters of every enabled class X (counted after the shuffle).
C2_MinimumsMet ==
  (IsRandom /\ ValidRandomConfig(args))
    => /\ pc = "random_loop" => EnabledMinimumsMet(args, generated_password)
       /\ ret = "str" => EnabledMinimumsMet(args, result)

\* a regenerated password with a guaranteed uppercase character, returned
\* by a call that also enables the lowercase class
C2_Witness ==
  /\ pc = "done" /\ IsRandom /\ ret = "str" /\ attempts >= 1
  /\ args.use_lower /\ args.use_upper /\ args.min_upper = MaxLen
  /\ args.length = MaxLen
  /\ CountIn(result, Range(CHARS_UPPERCASE)) = MaxLen

\* C3: with exclude_ambiguous no returned password holds one of l, I, O, 0, 1.
C3_NoAmbiguous ==
  (pc = "done" /\ IsRandom /\ ret = "str" /\ ValidRandomConfig(args)
     /\ args.exclude_ambiguous)
    => Range(result) \cap Range(AMBIGUOUS_CHARS) = {}

\* C4: every character of a returned password belongs to the alphabet of a
\* class whose flag is true.
C4_OnlyEnabledClasses ==
  (IsRandom /\ ret = "str") => Range(result) \subseteq AllowedChars(args)

\* only use_lower, no minimum: lowercase letters are returned
C4_Witness ==
  /\ pc = "done" /\ IsRandom /\ ret = "str"
  /\ args.use_lower /\ ~args.use_upper /\ ~args.use_digits /\ ~args.use_symbols
  /\ SumOfMinimums(args) = 0 /\ args.length = MaxLen
  /\ Len(result) = MaxLen /\ Range(result) \subseteq Range(CHARS_LOWERCASE)

\* the three cases in which the call must fail before any attempt
FailsBeforeAnyAttempt(a) ==
  \/ ~AnyClass(a)
  \/ SumOfMinimums(a) > a.length
  \/ CharPool(a) = << >>

\* C5: with no class enabled, minimums above the length or an empty pool the
\* call returns None at once: no candidate drawn, no checker invoked.
C5_FailsImmediately ==
  (IsRandom /\ FailsBeforeAnyAttempt(args))
    => /\ pc = "done" /\ ret = "None"
       /\ produced = 0 /\ validated = 0 /\ draws = 0

\* a call with a class enabled whose minimums exceed the length has failed
C5_Witness ==
  /\ IsRandom /\ AnyClass(args) /\ args.length >= 1
  /\ SumOfMinimums(args) > args.length
  /\ pc = "done" /\ ret = "None"

\* the arguments with the minimums of the disabled classes set to 0
IgnoreDisabledMinimums(a) ==
  [ a EXCEPT !.min_lower = IF a.use_lower THEN @ ELSE 0,
             !.min_upper = IF a.use_upper THEN @ ELSE 0,
             !.min_digits = IF a.use_digits THEN @ ELSE 0,
             !.min_symbols = IF a.use_symbols THEN @ ELSE 0 ]

\* C6 as stated: a call with a minimum for a disabled class succeeds or fails
\* exactly as the same call with that minimum set to 0.
C6_DisabledMinimumIgnored ==
  (pc = "done" /\ IsRandom)
    => ((ret = "None")
          <=> (~AnyClass(args) \/ SumOfMinimums(IgnoreDisabledMinimums(args)) > args.length))

\* C6, amended: a minimum for a disabled class adds no character of that
\* class to the password, but it counts in the sum checked against the
\* length: the call fails exactly when no class is enabled or the four
\* minimums together exceed the length.
C6_DisabledMinimumCounted ==
  (pc = "done" /\ IsRandom)
    => /\ (ret = "None") <=> (~AnyClass(args) \/ SumOfMinimums(args) > args.length)
       /\ (ret = "str" /\ ~args.use_lower) => CountIn(result, Range(CHARS_LOWERCASE)) = 0
       /\ (ret = "str" /\ ~args.use_upper) => CountIn(result, Range(CHARS_UPPERCASE)) = 0
       /\ (ret = "str" /\ ~args.use_digits) => CountIn(result, Range(CHARS_DIGITS)) = 0
       /\ (ret = "str" /\ ~args.use_symbols) => CountIn(result, Range(CHARS_SYMBOLS)) = 0

\* a call with a minimum for the disabled uppercase class has returned a
\* password without uppercase characters
C6_Witness ==
  /\ pc = "done" /\ IsRandom /\ ret = "str"
  /\ ~args.use_upper /\ args.min_upper = 1 /\ args.length = MaxLen
  /\ Len(result) = MaxLen /\ CountIn(result, Range(CHARS_UPPERCASE)) = 0

\* C7: a call with length <= 0 fails fast: it returns no string, produces no
\* candidate and runs no checker.
C7_NonPositiveLengthFails ==
  (IsRandom /\ args.length <= 0)
    => (ret # "str" /\ produced = 0 /\ validated = 0)

\* C8: one call produces at most 100 candidates.
C8_AtMostCapCandidates == produced <= max_attempts

\* candidates are validated in the order they are produced, and all but the
\* accepted one were rejected
C9_InOrder ==
  /\ pc = "random_loop" => (validated = produced - 1 /\ rejected = validated)
  /\ pc = "random_regen" => (validated = produced /\ rejected = validated)
  /\ pc \in { "phrase_loop", "phrase_drawn" }
       => (validated = produced /\ rejected = validated)
  /\ pc = "phrase_check" => (validated = produced - 1 /\ rejected = validated)
  /\ (pc = "done" /\ ret = "str" /\ ~warned)
       => /\ validated = produced
          /\ rejected = validated - 1
          /\ result = LastCandidate

\* C9: in both modes the candidates are validated in the order they are
\* produced and the call returns the first one the checkers accept; once it
\* has returned, no candidate is produced and no checker runs any more.
C9_FirstAcceptedReturned ==
  /\ []C9_InOrder
  /\ [][pc = "done" => (pc' = "idle" /\ produced' = 0 /\ validated' = 0)]_vars

\* a passphrase call has returned a candidate accepted after two rejections
C9_Witness ==
  /\ pc = "done" /\ IsPhrase /\ ret = "str" /\ ~warned
  /\ rejected >= 2 /\ validated = rejected + 1 /\ produced = validated
  /\ result = LastCandidate /\ Len(result) >= 1

\* C10: the degraded outcome (the warning) occurs only when every candidate
\* produced in the call, the returned one included, was validated and
\* rejected.
C10_DegradedOnlyAfterAllRejected ==
  (pc = "done" /\ warned)
    => (ret = "str" /\ validated = produced /\ rejected = produced)

\* some token of the pattern list occurs in s, whatever the case of s
ContainsCommonPattern(s) ==
  \E k \in 1..Len(COMMON_PATTERNS) :
    LET token == COMMON_PATTERNS[k]
    IN  \E i \in 1..Len(s) :
          /\ i + Len(token) - 1 <= Len(s)
          /\ \A j \in 1..Len(token) : LowerChar(s[i + j - 1]) = token[j]

\* s has n consecutive positions holding the same character
HasRun(s, n) ==
  \E i \in 1..Len(s) :
    /\ i + n - 1 <= Len(s)
    /\ \A j \in i..(i + n - 1) : s[j] = s[i]

\* C11: a string returned without the warning is rejected by no active
\* checker: it holds no common pattern when check_for_common_patterns is
\* passed and no run of 3 identical characters when
\* check_for_consecutive_repetitions is passed; and a call that rejected a
\* candidate has produced another one.
C11_RejectedNeverAccepted ==
  /\ (pc = "done" /\ ret = "str" /\ ~warned)
       => /\ args.avoid_patterns_func = "check_for_common_patterns"
               => ~ContainsCommonPattern(result)
          /\ args.avoid_repetitions_func = "check_for_consecutive_repetitions"
               => ~HasRun(result, 3)
  /\ (pc = "done" /\ rejected >= 1) => produced >= 2

\* a password of digits accepted by both checkers after a rejected one
C11_Witness ==
  /\ pc = "done" /\ IsRandom /\ ret = "str" /\ ~warned
  /\ args.avoid_patterns_func = "check_for_common_patterns"
  /\ args.avoid_repetitions_func = "check_for_consecutive_repetitions"
  /\ rejected >= 1 /\ produced >= 2
  /\ ~HasRun(result, 3) /\ ~ContainsCommonPattern(result)

\* a call is in progress
InCall == pc \notin { "idle", "done", "looked_up" }

\* the attempt counter counts the rejections and never passes the cap
C12_AttemptsCountRejections ==
  /\ attempts <= max_attempts
  /\ pc = "random_loop" => attempts = rejected
  /\ pc = "random_regen" => attempts = rejected - 1
  /\ pc \in { "phrase_loop", "phrase_drawn", "phrase_check" } => attempts = rejected
  /\ (pc = "done" /\ warned) => (attempts = max_attempts /\ rejected = max_attempts)

\* C12: every call of either method returns, whatever the checkers answer:
\* each rejection adds one to the attempt counter and the call returns when
\* the counter reaches 100.
C12_Terminates ==
  /\ []C12_AttemptsCountRejections
  /\ InCall ~> (pc = "done")

\* a passphrase call returned after 100 rejections
C12_Witness ==
  /\ pc = "done" /\ IsPhrase /\ warned /\ ret = "str"
  /\ attempts = max_attempts /\ rejected = max_attempts

\* C13: generate_passphrase returns None at once when the word list is empty
\* or word_count <= 0: no word drawn, no checker invoked, no attempt counted.
C13_PhraseFailsImmediately ==
  (IsPhrase /\ (wordlist = << >> \/ args.word_count <= 0))
    => /\ pc = "done" /\ ret = "None"
       /\ draws = 0 /\ produced = 0 /\ validated = 0 /\ attempts = 0
       /\ phrase_words = << >>

\* a call with word_count <= 0 on a loaded word list has failed
C13_Witness ==
  /\ IsPhrase /\ wordlist # << >> /\ args.word_count <= 0
  /\ pc = "done" /\ ret = "None" /\ draws = 0 /\ validated = 0

\* position of the first occurrence of d in s, 0 when there is none
FirstOccurrence(d, s) ==
  IF IsSubstring(d, s)
    THEN CHOOSE i \in 1..Len(s) :
           /\ i + Len(d) - 1 <= Len(s)
           /\ SubSeq(s, i, i + Len(d) - 1) = d
           /\ \A h \in 1..(i - 1) : SubSeq(s, h, h + Len(d) - 1) # d
    ELSE 0

\* the segments of s between the occurrences of the delimiter d
RECURSIVE Segments(_, _)
Segments(s, d) ==
  IF FirstOccurrence(d, s) = 0 THEN << s >>
  ELSE << SubSeq(s, 1, FirstOccurrence(d, s) - 1) >>
         \o Segments(SubSeq(s, FirstOccurrence(d, s) + Len(d), Len(s)), d)

\* the number of tokens the call joins
ExpectedSegments(a) ==
  a.word_count + (IF a.add_number THEN 1 ELSE 0) + (IF a.add_symbol THEN 1 ELSE 0)

\* C14: a returned passphrase has exactly word_count + (1 if add_number)
\* + (1 if add_symbol) delimiter-separated segments, and with add_number one
\* of them is a single digit.
C14_SegmentCount ==
  (pc = "done" /\ IsPhrase /\ ret = "str" /\ args.word_count >= 1)
    => LET segs == Segments(result, args.delimiter)
       IN  /\ Len(segs) = ExpectedSegments(args)
           /\ args.add_number
                => \E k \in 1..Len(segs) :
                     Len(segs[k]) = 1 /\ segs[k][1] \in Range(CHARS_DIGITS)

\* C15: a breach lookup that failed is reported as unknown, never as a clean
\* result.
C15_FailedLookupReportedUnknown ==
  (hibp.calls > 0 /\ hibp.failed) => hibp.report = "unknown"

\* C16: the breach lookup is made by the caller only, after a call returned a
\* non-empty password, at most once for it, never while a call is in
\* progress; it changes nothing of the call (no regeneration, the same
\* returned password) and no exception leaves check_pwned_password.
C16_LookupStateInv ==
  /\ hibp.calls <= 1
  /\ InCall => hibp.calls = 0
  /\ hibp.calls = 1
       => (pc = "looked_up" /\ ret = "str" /\ result # << >> /\ ~hibp.raised)

C16_LookupAfterReturnOnly ==
  /\ []C16_LookupStateInv
  /\ [][hibp'.calls > hibp.calls
          => /\ pc = "done" /\ pc' = "looked_up"
             /\ UNCHANGED << args, password_chars, phrase_words, attempts, ret, result,
                             warned, produced, validated, rejected, draws >>]_vars
  /\ [][pc = "looked_up" => (pc' = "idle" /\ produced' = 0)]_vars

\* a failed lookup was made for a password returned after a rejection
C16_Witness ==
  /\ pc = "looked_up" /\ hibp.calls = 1 /\ hibp.failed /\ ~hibp.raised
  /\ ret = "str" /\ result # << >> /\ rejected >= 1

\* C17: no step of any call of either method changes the word list set at
\* construction; when it is empty (loading failed) every generate_passphrase
\* call returns None, at once.
C17_WordlistFrame ==
  /\ [][wordlist' = wordlist]_vars
  /\ [](wordlist \in Wordlists)
  /\ []((wordlist = << >> /\ IsPhrase)
          => (pc = "done" /\ ret = "None" /\ draws = 0 /\ phrase_words = << >>))

\* on a generator without word list a passphrase call with a positive
\* word_count has failed
C17_Witness ==
  /\ wordlist = << >> /\ IsPhrase /\ args.word_count >= 1
  /\ pc = "done" /\ ret = "None"

\* the strings a call with arguments a can return when it runs alone
AloneResults(a, wl) ==
  IF a.op = "random"
    THEN { JoinChars(c) : c \in RandomCandidates(a) }
    ELSE UNION { { Join(a.delimiter, c) : c \in PhraseCandidates(a, w) } :
                 w \in PhraseWords(a, wl) }

\* the locals l of a call are as they can be when the call runs alone
CallUndisturbed(l) ==
  /\ l.ret = "str" => l.result \in AloneResults(l.args, wordlist)
  /\ l.pc = "random_loop"
       => (l.attempts = l.rejected /\ l.password_chars \in RandomCandidates(l.args))
  /\ l.pc = "random_regen" => l.attempts = l.rejected - 1
  /\ l.pc \in { "phrase_loop", "phrase_drawn", "phrase_check" }
       => l.attempts = l.rejected
  /\ l.pc = "phrase_check"
       => Join(l.args.delimiter, l.phrase_words) \in AloneResults(l.args, wordlist)
  /\ l.attempts <= max_attempts

\* C18: when the steps of two calls on one generator interleave, the locals
\* of the call that is not running are left alone by every step of the other,
\* the word list is unchanged, and each call's counter, candidate and result
\* are ones it can have when it runs alone.
C18_InterleavingHarmless ==
  /\ [](CallUndisturbed(Current) /\ CallUndisturbed(other))
  /\ [][other' # other => (other' = Current /\ Current' = other)]_vars
  /\ [][wordlist' = wordlist]_vars

\* both calls are in their retry loops, each after a rejection
C18_Witness ==
  /\ IsRandom /\ pc = "random_loop" /\ attempts >= 1
  /\ other.args.op = "passphrase" /\ other.pc = "phrase_check" /\ other.attempts >= 1

\* C19: for a threshold k >= 1 check_for_consecutive_repetitions(s, k) is
\* true exactly when s has k + 1 consecutive positions holding the same
\* character: with the default k = 2, exactly for a run of 3 or more; and it
\* is false for every string shorter than k + 1.
C19_RepetitionsExact ==
  (probe.fn = "check_for_consecutive_repetitions" /\ probe.max_consecutive >= 1)
    => /\ probe.out = HasRun(probe.password, probe.max_consecutive + 1)
       /\ probe.max_consecutive = DefaultMaxConsecutive
            => (probe.out = HasRun(probe.password, 3))
       /\ Len(probe.password) < probe.max_consecutive + 1 => probe.out = FALSE

\* a run of exactly 3 at the end of the string is found with the default
\* threshold
C19_Witness ==
  /\ probe.fn = "check_for_consecutive_repetitions"
  /\ probe.max_consecutive = DefaultMaxConsecutive
  /\ probe.password = << "A", "a", "a", "a" >>
  /\ probe.out = TRUE

\* C20: check_for_common_patterns(s) is true exactly when a token of the
\* pattern list occurs as a contiguous substring of the lower-cased s; the
\* upper-cased and the lower-cased s get the verdict of s.
C20_PatternsExact ==
  probe.fn = "check_for_common_patterns"
    => /\ probe.out = ContainsCommonPattern(probe.password)
       /\ check_for_common_patterns(Upper(probe.password)) = probe.out
       /\ check_for_common_patterns(Lower(probe.password)) = probe.out

\* a capitalized token between other characters is found
C20_Witness ==
  /\ probe.fn = "check_for_common_patterns"
  /\ probe.password = << "x", "J", "o", "h", "n", "3" >>
  /\ probe.out = TRUE

\* the classes of characters present in s, by the alphabets of config.py
ClassesPresent(s) ==
  { c \in { "lowercase", "uppercase", "digit", "symbol", "other" } :
      \E i \in 1..Len(s) :
        CASE c = "lowercase" -> s[i] \in Range(CHARS_LOWERCASE)
          [] c = "uppercase" -> s[i] \in Range(CHARS_UPPERCASE)
          [] c = "digit" -> s[i] \in Range(CHARS_DIGITS)
          [] c = "symbol" -> s[i] \in Range(CHARS_SYMBOLS)
          [] OTHER -> s[i] \notin Range(CHARS_LOWERCASE) \cup Range(CHARS_UPPERCASE)
                                  \cup Range(CHARS_DIGITS) \cup Range(CHARS_SYMBOLS) }

\* the fixed size of a class
ClassSize(c) ==
  CASE c = "lowercase" -> 26 [] c = "uppercase" -> 26 [] c = "digit" -> 10
    [] c = "symbol" -> 32 [] c = "other" -> 50

RECURSIVE SumOfSizes(_)
SumOfSizes(C) ==
  IF C = {} THEN 0
  ELSE LET c == CHOOSE x \in C : TRUE IN ClassSize(c) + SumOfSizes(C \ {c})

\* C21: calculate_entropy returns 0 for the empty string and, for a
\* non-empty password, its length times log2 of the sum of the sizes 26, 26,
\* 10, 32, 50 of exactly the classes present in it; no password of the same
\* classes that is not longer has a larger entropy.
C21_EntropyByClasses ==
  probe.fn = "calculate_entropy"
    => /\ probe.password = << >> => probe.out = 0
       /\ probe.password # << >>
            => probe.out = Len(probe.password) * log2[SumOfSizes(ClassesPresent(probe.password))]
       /\ LET present == ClassesPresent(probe.password)
          IN  \A t \in EntropyStrings :
                (Len(t) <= Len(probe.password) /\ ClassesPresent(t) = present)
                  => calculate_entropy(t) <= probe.out

\* a password of two classes, one of them "other", has been measured
C21_Witness ==
  /\ probe.fn = "calculate_entropy"
  /\ probe.password = << " ", "5" >>
  /\ probe.out = 2 * log2[60]

\* log2 of the number of seconds in a unit, times 1000 as guesses per second
UnitDivisor(unit) ==
  LET L == Log2Divisor
  IN  CASE unit = "seconds" -> L.guesses_per_second
        [] unit = "minutes" -> L.guesses_per_second + L.sixty
        [] unit = "hours" -> L.guesses_per_second + 2 * L.sixty
        [] unit = "days" -> L.guesses_per_second + 2 * L.sixty + L.twenty_four
        [] unit = "years" -> L.guesses_per_second + 2 * L.sixty + L.twenty_four
                               + L.days_per_year

\* the units from the largest to the smallest
Units == << "years", "days", "hours", "minutes", "seconds" >>

\* the largest unit in which 2^entropy / 10^12 seconds is at least 1, and
\* seconds when there is none
LargestUnit(entropy) ==
  IF \E k \in 1..Len(Units) : entropy >= UnitDivisor(Units[k])
    THEN Units[CHOOSE k \in 1..Len(Units) :
                 /\ entropy >= UnitDivisor(Units[k])
                 /\ \A j \in 1..(k - 1) : entropy < UnitDivisor(Units[j])]
    ELSE "seconds"

\* the answer of estimate_crack_time is the one the units give
CrackTimeAsStated(entropy, out) ==
  /\ entropy <= 0 => out = Returned("Instantly", 0)
  /\ entropy > 0
       => /\ ~ out.raised
          /\ out.unit = LargestUnit(entropy)
          /\ out.value = entropy - UnitDivisor(out.unit)

\* C22: estimate_crack_time returns "Instantly" for every entropy <= 0 and,
\* for every entropy > 0, returns (it never raises) 2^entropy / 10^12 seconds
\* in the largest unit among years, days, hours, minutes and seconds whose
\* value is at least 1, and in seconds when it is under one second.
C22_CrackTimeAlwaysReturned ==
  probe.fn \in { "estimate_crack_time", "report" }
    => CrackTimeAsStated(probe.entropy, probe.out)

\* the candidate of this attempt has been through its validation
JustValidated ==
  \/ pc = "random_regen"
  \/ pc = "done" /\ ret = "str" /\ ~ warned
  \/ pc = "phrase_loop" /\ validated > 0

\* C23: within one validation the pattern checker is called before the
\* repetition checker and short-circuits it: the repetition checker is never
\* called on a candidate the pattern checker rejected.  A checker passed as
\* None is never called, an enabled one is called unless short-circuited,
\* and with both disabled the first candidate is returned with no
\* regeneration.
C23_CheckersInOrder ==
  /\ \A i \in 1..Len(invoked) :
       /\ args[invoked[i].checker] # "None"
       /\ invoked[i].checker = "avoid_patterns_func" => i = 1
       /\ invoked[i].checker = "avoid_repetitions_func"
            => /\ i = Len(invoked)
               /\ \A j \in 1..(i - 1) :
                    invoked[j].checker = "avoid_patterns_func" /\ ~ invoked[j].said
  /\ JustValidated
       => /\ args.avoid_patterns_func # "None"
               => (invoked # << >> /\ invoked[1].checker = "avoid_patterns_func")
          /\ (/\ args.avoid_repetitions_func # "None"
              /\ (args.avoid_patterns_func = "None" \/ ~ invoked[1].said))
               => (invoked # << >>
                     /\ invoked[Len(invoked)].checker = "avoid_repetitions_func")
  /\ (args.avoid_patterns_func = "None" /\ args.avoid_repetitions_func = "None")
       => /\ invoked = << >>
          /\ rejected = 0 /\ attempts = 0 /\ produced <= 1 /\ ~ warned
          /\ pc # "random_regen"
          /\ (pc = "done" /\ ret = "str") => (produced = 1 /\ validated = 1)

\* the pattern checker has rejected a candidate of a call that has a
\* repetition checker too, and nothing else was called
C23_Witness ==
  /\ pc = "random_regen"
  /\ args.avoid_repetitions_func = "callable"
  /\ invoked = << Invocation("avoid_patterns_func", TRUE) >>

\* number of positions of the list t holding x
Occurrences(x, t) == Cardinality({ i \in 1..Len(t) : t[i] = x })

\* t holds the elements of u, each as many times, in some order
IsPermutation(t, u) ==
  /\ Len(t) = Len(u)
  /\ \A x \in Range(t) \cup Range(u) : Occurrences(x, t) = Occurrences(x, u)

\* a one-character token of the alphabet
TokensOf(alphabet) == { << c >> : c \in Range(alphabet) }

\* the words w as the call joins them when nothing is appended
WordsAsJoined(a, w) ==
  [ i \in 1..Len(w) |->
      IF a.capitalize_words
        THEN << UpperChar(w[i][1]) >> \o Lower(Tail(w[i])) ELSE w[i] ]

\* the step from the drawn words to the tokens that are joined: the order is
\* kept when nothing is appended, and the tokens are otherwise the words,
\* one digit if add_number and one symbol if add_symbol, in some order
C24_TokensStep ==
  (pc = "phrase_drawn" /\ pc' = "phrase_check")
    => IF ~ (args.add_number \/ args.add_symbol)
         THEN phrase_words' = WordsAsJoined(args, phrase_words)
         ELSE \E n \in IF args.add_number THEN { << d >> : d \in TokensOf(CHARS_DIGITS) }
                                         ELSE { << >> },
                 y \in IF args.add_symbol THEN { << c >> : c \in TokensOf(CHARS_SYMBOLS) }
                                         ELSE { << >> } :
                IsPermutation(phrase_words',
                              WordsAsJoined(args, phrase_words) \o n \o y)

\* with the words drawn, the appended digit and the appended symbol can each
\* come at any position of the list
C24_EveryPosition ==
  pc = "phrase_drawn"
    => \A k \in 1..(Len(phrase_words) + AugmentDraws(args)) :
         /\ args.add_number
              => ENABLED (PhraseAugment /\ phrase_words'[k] \in TokensOf(CHARS_DIGITS))
         /\ args.add_symbol
              => ENABLED (PhraseAugment /\ phrase_words'[k] \in TokensOf(CHARS_SYMBOLS))

\* C24: the token list is shuffled if and only if add_number or add_symbol
\* is set.  Without augmentation the words are joined in the order drawn;
\* with it the joined tokens are a permutation of the drawn words and the
\* appended tokens, nothing added, lost or duplicated, and an appended token
\* can come first, last or in between.
C24_ShuffledIffAugmented == [][C24_TokensStep]_vars /\ []C24_EveryPosition

\* a digit has come between the two words, the symbol last
C24_Witness ==
  /\ pc = "phrase_check"
  /\ args.word_count = 2 /\ args.add_number /\ args.add_symbol
  /\ Len(phrase_words) = 4
  /\ phrase_words[1] = << "a", "b" >>
  /\ phrase_words[2] \in TokensOf(CHARS_DIGITS)
  /\ phrase_words[3] = << "l", "o" >>
  /\ phrase_words[4] \in TokensOf(CHARS_SYMBOLS)

\* C25: check_for_consecutive_repetitions with max_consecutive < 1 returns
\* False for every string, a run of one character included, so a generation
\* method given such a checker (and no pattern checker) accepts and returns
\* its first candidate.
C25_LenientNeverRejects ==
  /\ (probe.fn = "check_for_consecutive_repetitions" /\ probe.max_consecutive < 1)
       => probe.out = FALSE
  /\ (args.avoid_repetitions_func \in LenientCheckers
        /\ args.avoid_patterns_func = "None")
       => /\ rejected = 0 /\ attempts = 0 /\ produced <= 1 /\ ~ warned
          /\ pc \notin { "random_regen" }
          /\ \A i \in 1..Len(invoked) : ~ invoked[i].said
          /\ pc = "done" => (ret = "str" /\ produced = 1 /\ validated = 1)

\* a run of four characters was not rejected by the function called with
\* max_consecutive 0, and a password of one repeated digit was returned by a
\* call given such a checker
C25_Witness ==
  /\ probe.fn = "check_for_consecutive_repetitions"
  /\ probe.max_consecutive = 0
  /\ probe.password = << "a", "a", "a", "a" >>
  /\ probe.out = FALSE
  /\ pc = "done" /\ ret = "str"
  /\ args.avoid_repetitions_func \in LenientCheckers
  /\ result = << "2", "2", "2" >>
  /\ invoked = << Invocation("avoid_repetitions_func", FALSE) >>

\* some class whose flag is true has a character that the call may use
PoolHasCharacter(a) ==
  \E alphabet \in (IF a.use_lower THEN { CHARS_LOWERCASE } ELSE {})
                    \cup (IF a.use_upper THEN { CHARS_UPPERCASE } ELSE {})
                    \cup (IF a.use_digits THEN { CHARS_DIGITS } ELSE {})
                    \cup (IF a.use_symbols THEN { CHARS_SYMBOLS } ELSE {}) :
    \E i \in 1..Len(alphabet) :
      ~ a.exclude_ambiguous \/ (\A j \in 1..Len(AMBIGUOUS_CHARS) :
                                   alphabet[i] # AMBIGUOUS_CHARS[j])

\* C26: with the built-in alphabets and ambiguous set the character pool is
\* non-empty for every combination of class flags with at least one flag
\* true, with exclude_ambiguous or without: the empty-pool failure is never
\* reached, a call with no class enabled fails at the no-class check, and a
\* call fails only at that check or at the one of the minimums.
C26_PoolNeverEmpty ==
  IsRandom
    => /\ AnyClass(args) => (PoolHasCharacter(args) /\ CharPool(args) # << >>)
       /\ RandomPrecheck(args) # "EmptyPool"
       /\ ~ AnyClass(args) => RandomPrecheck(args) = "NoCharacterClass"
       /\ (pc = "done" /\ ret = "None")
            => (~ AnyClass(args) \/ SumOfMinimums(args) > args.length)

\* a password of digits was returned by a call that excludes the ambiguous
\* characters
C26_Witness ==
  /\ IsRandom /\ pc = "done" /\ ret = "str"
  /\ args.use_digits /\ ~ args.use_lower /\ ~ args.use_upper /\ ~ args.use_symbols
  /\ args.exclude_ambiguous
  /\ result = << "2" >>

====
